---- MODULE Spec2Model ----
(***************************************************************************)
(* The event-notification scheduler of the calendar bot (src/bot.py,       *)
(* check_upcoming_events) together with the tasks that start it, the       *)
(* subscription handlers and the helpers of src/calendar_utils.py and      *)
(* src/db_utils.py it calls.                                               *)
(*                                                                         *)
(* Time is counted in minutes.  A text (a summary, an ISO timestamp, an    *)
(* event id) is a sequence of tokens; the token "_" is the underscore and  *)
(* every other token is a run of characters without an underscore.         *)
(***************************************************************************)
EXTENDS Integers, Sequences, FiniteSets, TLC

\* ------------------------------------------------------------- constants
CHECK_INTERVAL == 300
NOTIFICATION_TIME == 15
WindowHours == 1
PruneDays == 1
MinutesPerHour == 60
MinutesPerDay == 1440
SecondsPerMinute == 60

\* ---------------------------------------------------------------- bounds
\* the recipients known to the user directory are 1..NUsers
NUsers == 2
\* the clock advances TimeStep minutes at a time, at most MaxSteps times
MaxSteps == 4
\* the day of the month on which the run starts
StartDay == 5
\* a delivery count is followed up to this value
MaxCount == 2

TimeStep == CHECK_INTERVAL \div SecondsPerMinute
T0 == StartDay * MinutesPerDay + 10 * MinutesPerHour
MaxClock == T0 + MaxSteps * TimeStep

UserIds == 1..NUsers
Loops == {"main", "on_startup"}
NoCalendar == "none"
Url == "https://calendar.example/feed.ics"

\* ------------------------------------------------------- dates and texts
\* datetime.isoformat()[:10]: the date part of a timestamp
DateStr(t) == "2026-11-0" \o ToString(t \div MinutesPerDay)
TimeStr(t) == "T" \o ToString(t % MinutesPerDay)
\* datetime.isoformat(): the date, then the time of day
isoformat(t) == <<DateStr(t), TimeStr(t)>>

\* str.split(sep): the runs of tokens between the separators
RECURSIVE split(_, _)
split(s, sep) ==
    IF \E i \in 1..Len(s) : s[i] = sep
    THEN LET i == CHOOSE k \in 1..Len(s) :
                     s[k] = sep /\ \A j \in 1..(k - 1) : s[j] # sep
         IN  <<SubSeq(s, 1, i - 1)>> \o split(SubSeq(s, i + 1, Len(s)), sep)
    ELSE <<s>>

\* str.startswith(prefix)
startswith(s, p) == Len(s) >= Len(p) /\ SubSeq(s, 1, Len(p)) = p

\* f"{event['summary']}_{event_start.isoformat()}"
event_id(e) == e.summary \o <<"_">> \o isoformat(e.start)

\* ------------------------------------------------- the calendar document
\* The document served at Url: VEVENTs with DTSTART and a duration; SUMMARY,
\* DESCRIPTION and LOCATION are properties a VEVENT may lack.
Feed ==
    << [start |-> T0 + 15, dur |-> 30,
        summary |-> <<"Review", "_", DateStr(T0 - MinutesPerDay), " notes">>,
        location |-> <<"Room 1">>],
       [start |-> T0 + 5, dur |-> 30, summary |-> <<"Standup">>,
        description |-> <<"Daily">>],
       [start |-> T0 - 10, dur |-> 30, summary |-> <<"Ongoing">>],
       [start |-> T0 + 90, dur |-> 30, summary |-> <<"Later">>] >>

\* The period of a recurrence rule, in minutes
Period(rrule) == IF rrule.freq = "WEEKLY" THEN 7 * MinutesPerDay ELSE MinutesPerDay

\* The instances of the VEVENTs of cal that start before end_date: a VEVENT
\* with an RRULE (without COUNT or UNTIL) recurs from its DTSTART on
RECURSIVE expand(_, _)
expand(cal, end_date) ==
    IF cal = <<>> THEN <<>>
    ELSE LET e == cal[1]
             n == IF "rrule" \in DOMAIN e /\ e.start < end_date
                  THEN (end_date - 1 - e.start) \div Period(e.rrule) + 1
                  ELSE 1
         IN  [k \in 1..n |->
                 [name \in DOMAIN e \ {"rrule"} |->
                     IF name = "start"
                     THEN e.start + (k - 1) * (IF "rrule" \in DOMAIN e
                                               THEN Period(e.rrule) ELSE 0)
                     ELSE e[name]]]
             \o expand(Tail(cal), end_date)

\* An occurrence counts only if it starts inside the span
InSpan_starting(e, start_date, end_date) ==
    start_date <= e.start /\ e.start < end_date

\* An occurrence is in the span if it overlaps it; one without duration, if
\* it starts in it
InSpan(e, start_date, end_date) ==
    IF e.dur = 0 THEN start_date <= e.start /\ e.start < end_date
    ELSE e.start < end_date /\ start_date < e.start + e.dur

\* recurring_ical_events.of(calendar).between(start_date, end_date): the
\* occurrences, recurrences expanded, that are in the span
between(cal, start_date, end_date) ==
    SelectSeq(expand(cal, end_date), LAMBDA e : InSpan(e, start_date, end_date))

\* str(event.get(name, default)); the defaults are the Russian texts for
\* "untitled", "no description" and "no place", transliterated
get(e, name, default) == IF name \in DOMAIN e THEN e[name] ELSE default

formatted(e) ==
    [start |-> e.start,
     summary |-> get(e, "summary", <<"Bez nazvaniya">>),
     description |-> get(e, "description", <<"Bez opisaniya">>),
     location |-> get(e, "location", <<"Bez mesta">>)]

\* sorted(formatted_events, key=lambda x: x['start']): a stable sort
RECURSIVE insert(_, _)
insert(e, s) ==
    IF s = <<>> THEN <<e>>
    ELSE IF e.start < s[1].start THEN <<e>> \o s
    ELSE <<s[1]>> \o insert(e, Tail(s))

RECURSIVE sorted(_)
sorted(s) == IF s = <<>> THEN <<>> ELSE insert(s[Len(s)], sorted(SubSeq(s, 1, Len(s) - 1)))

get_events(cal, start_date, end_date) ==
    LET evs == between(cal, start_date, end_date)
    IN  sorted([i \in 1..Len(evs) |-> formatted(evs[i])])

AllIds == {event_id(formatted(Feed[i])) : i \in 1..Len(Feed)}
Pairs == UserIds \X AllIds

\* ------------------------------------------------------------ the state
VARIABLES
    clock,             \* the wall clock, in minutes
    calendar,          \* the calendars table: NoCalendar or the stored URL
    users,             \* the users table: user_id -> row
    notified_events,   \* the global dict user_id -> set of event ids
    pc,                \* per scheduler task: where it is suspended ("sleep" is
                       \*   asyncio.sleep(CHECK_INTERVAL), lines 640, 648, 697)
    now,               \* per task: the tick's now
    url,               \* per task: calendar_obj.url, read at line 636
    subscribed_users,  \* per task: the tick's list of subscribed user ids
    events,            \* per task: the tick's list of occurrences
    ui, ei,            \* per task: the position of the two for loops
    wake,              \* per task: when its sleep is over
    setup,             \* fixed for a run: whether the environment fails
                       \*   (no calendar, failing fetch, database or parse
                       \*   error), which groups of history variables are
                       \*   recorded, and about which (recipient, id) pair
    probe,             \* the argument and the result of a function that a
                       \*   specification applies on its own
    res,               \* history, per task: how its last finished tick ended
    delivered,         \* history: the deliveries of the pair that returned
                       \*   without error and were added to the dict
    lost,              \* history: a delivery of the pair returned without
                       \*   error and was not added to the dict
    marked,            \* history: the pair was added to the dict and no
                       \*   clear() has run since
    seen,              \* history, per task: marked, when its tick started
    failed,            \* history: a delivery of the pair raised an error
                       \*   and none has succeeded since
    retry,             \* history, per task: its tick found the pair due
                       \*   and failed, and has not yet attempted it
    lastDelivery,      \* history: outcome of the latest delivery to the
                       \*   pair's recipient
    stayed,            \* history: the pair's recipient has been subscribed
                       \*   all along
    owed,              \* history, per task: the due pairs the tick found
                       \*   unrecorded and has not yet attempted
    failedTo           \* history, per task: recipients whose delivery
                       \*   raised an error in the current tick

vars == <<clock, calendar, users, notified_events, pc, now, url, subscribed_users,
          events, ui, ei, wake, setup, probe, res, delivered, lost, marked, seen, failed,
          retry, lastDelivery, stayed, owed, failedTo>>

env == <<clock, calendar, users, setup, probe>>
locals == <<now, url, subscribed_users, events, ui, ei, wake>>
history == <<res, delivered, lost, marked, seen, failed, retry, lastDelivery, stayed, owed,
             failedTo>>

InTick == {"fetch", "send", "backoff"}

EmptyDict == [u \in {} |-> {}]
\* how a tick ended, whether its clear() removed an id, and the record as
\* the except clause of line 693 found it
NoResult == [how |-> "none", reset |-> FALSE, marks |-> EmptyDict]
\* no function is applied on its own
NoProbe == [op |-> "none"]

\* The history variables record the run without influencing it; a
\* specification records the groups of them that its properties read.
Groups == {"res", "delivered", "lost", "marked", "seen", "failed", "retry", "last", "stayed", "owed",
           "snap"}
Rec(group, new, old) == IF group \in setup.groups THEN new ELSE old
W == setup.pair
Failing == setup.failing

\* get_all_subscribed_users(db): the rows with is_subscribed, in any order
Subscribed == {u \in DOMAIN users : users[u].is_subscribed}
Orders(S) == {s \in [1..Cardinality(S) -> S] :
                 \A i, j \in 1..Cardinality(S) : i # j => s[i] # s[j]}

\* update_user_subscription(db, user_id, is_subscribed)
update_user_subscription(u, flag) ==
    IF u \in DOMAIN users
    THEN [users EXCEPT ![u] = [@ EXCEPT !.is_subscribed = flag]]
    ELSE users

\* The program as it starts, with one of the given URLs stored
InitStored(groups, pairs, failing, stored) ==
    /\ setup \in [groups : {groups}, pair : pairs, failing : {failing}]
    /\ clock = T0
    /\ calendar \in stored
    /\ users \in [UserIds -> [is_subscribed : BOOLEAN]]
    \* process_subscribe refuses without a calendar and no handler removes one
    /\ calendar = NoCalendar => \A u \in UserIds : ~users[u].is_subscribed
    /\ notified_events = EmptyDict
    /\ pc = [l \in Loops |-> "none"]
    /\ now = [l \in Loops |-> 0]
    /\ url = [l \in Loops |-> NoCalendar]
    /\ subscribed_users = [l \in Loops |-> <<>>]
    /\ events = [l \in Loops |-> <<>>]
    /\ ui = [l \in Loops |-> 0]
    /\ ei = [l \in Loops |-> 0]
    /\ wake = [l \in Loops |-> 0]
    /\ res = [l \in Loops |-> NoResult]
    /\ delivered = 0
    /\ lost = FALSE
    /\ marked = FALSE
    /\ seen = [l \in Loops |-> FALSE]
    /\ failed = FALSE
    /\ retry = [l \in Loops |-> FALSE]
    /\ lastDelivery = "none"
    /\ stayed = Rec("stayed", users[W[1]].is_subscribed, FALSE)
    /\ owed = [l \in Loops |-> {}]
    /\ failedTo = [l \in Loops |-> {}]

InitProgram(groups, pairs, failing) ==
    InitStored(groups, pairs, failing, IF failing THEN {NoCalendar, Url} ELSE {Url})

\* The program as it starts, with no function applied on its own
InitWatching(groups, pairs, failing) ==
    /\ InitProgram(groups, pairs, failing)
    /\ probe = NoProbe


\* ------------------------------------------- the body of one tick's loops
\* lines 662-663: if user_id not in notified_events: ... = set()
Ensure(n, u) ==
    IF u \in DOMAIN n THEN n
    ELSE [v \in DOMAIN n \cup {u} |-> IF v = u THEN {} ELSE n[v]]

\* line 667: (event_start - now).total_seconds() / 60
time_diff(e, nw) == e.start - nw

\* The lead-time test with its comparison reversed
InLead_reversed(e, nw) == NOTIFICATION_TIME <= time_diff(e, nw)

\* line 670, first conjunct
InLead(e, nw) == 0 <= time_diff(e, nw) /\ time_diff(e, nw) <= NOTIFICATION_TIME

\* Lines 659-670 from the evaluation of event j for user i on: runs to the
\* next send_message (kind "send"), to the end of both loops ("done") or to
\* the KeyError of notified_events[user_id] at line 670.
RECURSIVE Scan(_, _, _, _, _, _)
Scan(n, us, evs, nw, i, j) ==
    IF i > Len(us) THEN [kind |-> "done", n |-> n, i |-> 0, j |-> 0]
    ELSE IF j > Len(evs)
    THEN IF i + 1 > Len(us) THEN [kind |-> "done", n |-> n, i |-> 0, j |-> 0]
         ELSE Scan(Ensure(n, us[i + 1]), us, evs, nw, i + 1, 1)
    ELSE IF InLead(evs[j], nw)
    THEN IF us[i] \notin DOMAIN n THEN [kind |-> "KeyError", n |-> n, i |-> i, j |-> j]
         ELSE IF event_id(evs[j]) \notin n[us[i]]
         THEN [kind |-> "send", n |-> n, i |-> i, j |-> j]
         ELSE Scan(n, us, evs, nw, i, j + 1)
    ELSE Scan(n, us, evs, nw, i, j + 1)

\* line 659: entering the loop over the subscribed users
StartScan(n, us, evs, nw) ==
    IF us = <<>> THEN [kind |-> "done", n |-> n, i |-> 0, j |-> 0]
    ELSE Scan(Ensure(n, us[1]), us, evs, nw, 1, 1)

\* lines 689-691: drop the ids whose second "_"-field starts with
\* yesterday's date
prune(n, nw) ==
    [u \in DOMAIN n |->
        {id \in n[u] :
            ~startswith(split(id, "_")[2],
                        <<DateStr(nw - PruneDays * MinutesPerDay)>>)}]

\* An except clause that names the database and network errors only
Caught_narrow(exc) == exc \in {"db", "unavailable"}

\* line 693: except Exception catches every exception a tick raises
Caught(exc) == TRUE

\* The sleeps a tick would pass if the two early sleeps fell through to
\* the sleep of line 697
SleepLines_fallthrough(how) ==
    CASE how = "no_calendar" -> {640, 697}
      [] how = "fetch_failed" -> {648, 697}
      [] OTHER -> {697}

\* The lines of the asyncio.sleep(CHECK_INTERVAL) calls that a tick ending
\* the way `how` passes before the next tick: the continue of lines 641
\* and 649 goes through the finally clause back to line 629, past line 697
SleepLines(how) ==
    CASE how = "no_calendar" -> {640}
      [] how = "fetch_failed" -> {648}
      [] OTHER -> {697}

\* asyncio.sleep(CHECK_INTERVAL), once for each of these lines
SleepUntil(how) ==
    clock + Cardinality(SleepLines(how)) * (CHECK_INTERVAL \div SecondsPerMinute)

\* The pairs a tick that starts its loops with dict n finds due: the
\* recipient is in its list, the occurrence in its window and within the
\* lead time, and the pair is not recorded
Due(n, us, evs, nw) ==
    {p \in Pairs :
        /\ \E i \in 1..Len(us) : us[i] = p[1]
        /\ \E j \in 1..Len(evs) : event_id(evs[j]) = p[2] /\ InLead(evs[j], nw)
        /\ ~(p[1] \in DOMAIN n /\ p[2] \in n[p[1]])}

\* ---------------------------------------------------- the scheduler task
\* on_startup (registered with dp.startup) and main each create one task
\* that runs check_upcoming_events
create_task(l) ==
    /\ pc[l] = "none"
    /\ pc' = [pc EXCEPT ![l] = "start"]
    /\ UNCHANGED <<env, notified_events, locals, history>>

main == create_task("main")

on_startup == create_task("on_startup")

\* Where a tick that raised exc continues: the except clause of line 693,
\* the finally clause and the sleep of line 697
AfterException(exc) == IF Caught(exc) THEN "sleep" ELSE "crashed"

\* A reset that empties nothing
cleared_kept(n) == n

\* What the two notified_events.clear() calls leave in the dict
cleared(n) == EmptyDict

\* The task leaves its tick at a sleep: its locals are dropped
Leave(l, to, how) ==
    /\ pc' = [pc EXCEPT ![l] = to]
    /\ res' = Rec("res", [res EXCEPT ![l] =
                              [how |-> how,
                               reset |-> /\ how \in {"no_calendar", "fetch_failed"}
                                         /\ \E u \in DOMAIN notified_events :
                                                notified_events[u] # {},
                               marks |-> IF how = "exception"
                                         THEN Rec("snap", notified_events, EmptyDict)
                                         ELSE EmptyDict]],
                   res)
    /\ wake' = [wake EXCEPT ![l] = SleepUntil(how)]
    /\ subscribed_users' = [subscribed_users EXCEPT ![l] = <<>>]
    /\ events' = [events EXCEPT ![l] = <<>>]
    /\ ui' = [ui EXCEPT ![l] = 0]
    /\ ei' = [ei EXCEPT ![l] = 0]
    /\ now' = [now EXCEPT ![l] = 0]
    /\ url' = [url EXCEPT ![l] = NoCalendar]

\* Lines 630-644: the head of a tick, up to the await of fetch_calendar
TickStart(l) ==
    /\ pc[l] = "start"
    /\ owed' = [owed EXCEPT ![l] = {}]
    /\ failedTo' = [failedTo EXCEPT ![l] = {}]
    /\ retry' = [retry EXCEPT ![l] = FALSE]
    /\ \E raised \in (IF Failing THEN BOOLEAN ELSE {FALSE}) :
        IF raised
        THEN \* get_calendar(db) raises
             /\ Leave(l, AfterException("db"), "exception")
             /\ UNCHANGED stayed
             /\ UNCHANGED <<notified_events, marked, seen>>
        ELSE IF calendar = NoCalendar
        THEN \* lines 637-641
             /\ notified_events' = cleared(notified_events)
             /\ marked' = FALSE
             /\ seen' = [k \in Loops |-> FALSE]
             /\ Leave(l, "sleep", "no_calendar")
             /\ UNCHANGED stayed
        ELSE /\ pc' = [pc EXCEPT ![l] = "fetch"]
             /\ now' = [now EXCEPT ![l] = clock]
             /\ url' = [url EXCEPT ![l] = calendar]
             /\ seen' = Rec("seen", [seen EXCEPT ![l] = marked], seen)
             /\ res' = [res EXCEPT ![l] = NoResult]
             /\ UNCHANGED <<notified_events, marked, wake,
                            subscribed_users, events, ui, ei, stayed>>
    /\ UNCHANGED <<env, delivered, lost, failed, lastDelivery>>

\* The task goes on from scan result r: to the await of send_message, to
\* the prune and the sleep of line 697, or to the except clause.  ow and rt
\* are owed and retry as the step has left them so far.
Proceed(l, r, ow, rt, us, evs) ==
    IF r.kind = "send"
    THEN /\ notified_events' = r.n
         /\ pc' = [pc EXCEPT ![l] = "send"]
         /\ subscribed_users' = [subscribed_users EXCEPT ![l] = us]
         /\ events' = [events EXCEPT ![l] = evs]
         /\ ui' = [ui EXCEPT ![l] = r.i]
         /\ ei' = [ei EXCEPT ![l] = r.j]
         /\ owed' = [ow EXCEPT ![l] = @ \ {<<us[r.i], event_id(evs[r.j])>>}]
         /\ retry' = [rt EXCEPT ![l] = @ /\ <<us[r.i], event_id(evs[r.j])>> # W]
         /\ UNCHANGED <<res, wake, now, url, stayed>>
    ELSE IF r.kind = "done"
    THEN /\ notified_events' = prune(r.n, now[l])
         /\ Leave(l, "sleep", "done")
         /\ owed' = ow
         /\ retry' = rt
         /\ UNCHANGED stayed
    ELSE /\ notified_events' = r.n
         /\ Leave(l, AfterException("KeyError"), "exception")
         /\ owed' = ow
         /\ retry' = rt
         /\ UNCHANGED stayed

\* ------------------------------------------------------ fetch_calendar
\* A second address and the document its server holds
Url2 == "https://calendar.example/moved.ics"
Feed2 == << [start |-> T0 + 10, dur |-> 30, summary |-> <<"Moved">>] >>
Urls == {Url, Url2}

\* A third address: its document holds two VEVENTs with the same SUMMARY
\* and DTSTART
UrlTwins == "https://calendar.example/twins.ics"
FeedTwins ==
    << [start |-> T0 + 5, dur |-> 30, summary |-> <<"Sync">>, location |-> <<"Room 1">>],
       [start |-> T0 + 5, dur |-> 60, summary |-> <<"Sync">>, location |-> <<"Room 2">>] >>

\* The document the server of an address holds
Document(u) == IF u = Url2 THEN Feed2 ELSE IF u = UrlTwins THEN FeedTwins ELSE Feed

\* A response body: text that Calendar.from_ical parses to doc, or text
\* on which it raises
Body(doc) == [parsable |-> TRUE, doc |-> doc]
NoBody == [parsable |-> FALSE, doc |-> <<>>]

\* An answer held over from the address of the first fetch
Served_stale(u) == [error |-> "none", status |-> 200, body |-> Body(Feed)]

\* The answer to session.get(url): error is the exception aiohttp raises
\* ("none": an answer arrived), status and body are those of the answer
Served(u) == [error |-> "none", status |-> 200, body |-> Body(Document(u))]
Refused == [error |-> "ClientConnectorError", status |-> 0, body |-> NoBody]

\* The result of fetch_calendar: a calendar, or None, or an exception that
\* leaves the function
None == [ok |-> FALSE, doc |-> <<>>, raised |-> "none"]
Parsed(doc) == [ok |-> TRUE, doc |-> doc, raised |-> "none"]

\* A fetch_calendar that lets the error of from_ical through
fetch_calendar_raising(resp) ==
    IF resp.error # "none" THEN None
    ELSE IF resp.status = 200
    THEN IF resp.body.parsable THEN Parsed(resp.body.doc)
         ELSE [ok |-> FALSE, doc |-> <<>>, raised |-> "ValueError"]
    ELSE None

\* fetch_calendar(url), lines 11-23, on the answer resp to its request
fetch_calendar(resp) ==
    IF resp.error # "none" THEN None     \* session.get or response.text() raises
    ELSE IF resp.status = 200
    THEN IF resp.body.parsable THEN Parsed(resp.body.doc)  \* lines 16-17
         ELSE None                                    \* from_ical raises: 21-23
    ELSE None                                         \* lines 18-20

\* Lines 644-670: fetch_calendar returns; the users and the occurrences are
\* read and the loops run to their first await
FetchReturn(l) ==
    /\ pc[l] = "fetch"
    /\ \E resp \in (IF Failing THEN {Served(url[l]), Refused} ELSE {Served(url[l])}),
          raised \in (IF Failing THEN {"none", "db", "parse"} ELSE {"none"}) :
        LET cal == fetch_calendar(resp)
            outcome == IF ~cal.ok THEN "unavailable" ELSE raised
        IN
        IF outcome = "unavailable"
        THEN \* lines 645-649
             /\ notified_events' = cleared(notified_events)
             /\ marked' = FALSE
             /\ seen' = [k \in Loops |-> FALSE]
             /\ Leave(l, "sleep", "fetch_failed")
             /\ UNCHANGED stayed
             /\ UNCHANGED <<owed, retry>>
        ELSE IF outcome # "none"
        THEN \* get_all_subscribed_users(db) or get_events(...) raises
             /\ Leave(l, AfterException(outcome), "exception")
             /\ UNCHANGED stayed
             /\ UNCHANGED <<notified_events, marked, seen, owed, retry>>
        ELSE \E us \in Orders(Subscribed) :
             LET evs == get_events(cal.doc, now[l], now[l] + WindowHours * MinutesPerHour)
                 due == Due(notified_events, us, evs, now[l])
             IN  /\ Proceed(l, StartScan(notified_events, us, evs, now[l]),
                            Rec("owed", [owed EXCEPT ![l] = due], owed),
                            Rec("retry", [retry EXCEPT ![l] = W \in due /\ failed], retry),
                            us, evs)
                 /\ UNCHANGED <<marked, seen>>
    /\ UNCHANGED <<env, delivered, lost, failed, failedTo, lastDelivery>>

Bump(d) == IF d < MaxCount THEN d + 1 ELSE d

\* A mark that takes an id out again when it is already there
add_toggle(n, u, id) ==
    [n EXCEPT ![u] = IF id \in @ THEN @ \ {id} ELSE @ \cup {id}]

\* line 683: notified_events[user_id].add(event_id)
add(n, u, id) == [n EXCEPT ![u] = @ \cup {id}]

\* Lines 682-686 and on: send_message returns or raises
SendReturn(l) ==
    /\ pc[l] = "send"
    /\ LET u  == subscribed_users[l][ui[l]]
           id == event_id(events[l][ei[l]])
           p  == <<u, id>>
       IN \E sent \in BOOLEAN :
           IF sent /\ u \in DOMAIN notified_events
           THEN \* the delivery is recorded and the loops go on
                /\ delivered' = IF p = W THEN Rec("delivered", Bump(delivered), delivered)
                                ELSE delivered
                /\ marked' = IF p = W THEN Rec("marked", TRUE, marked) ELSE marked
                /\ failed' = IF p = W THEN FALSE ELSE failed
                /\ lastDelivery' = IF u = W[1] THEN Rec("last", "ok", lastDelivery)
                                   ELSE lastDelivery
                /\ Proceed(l, Scan(add(notified_events, u, id), subscribed_users[l],
                                   events[l], now[l], ui[l], ei[l] + 1),
                           [k \in Loops |-> owed[k] \ {p}],
                           [k \in Loops |-> retry[k] /\ p # W],
                           subscribed_users[l], events[l])
                /\ UNCHANGED <<failedTo, lost>>
           ELSE IF sent
           THEN \* line 683 raises KeyError, caught at line 684
                /\ lost' = IF p = W THEN Rec("lost", TRUE, lost) ELSE lost
                /\ failed' = IF p = W THEN FALSE ELSE failed
                /\ retry' = [k \in Loops |-> retry[k] /\ p # W]
                /\ lastDelivery' = IF u = W[1] THEN Rec("last", "ok", lastDelivery)
                                   ELSE lastDelivery
                /\ pc' = [pc EXCEPT ![l] = "backoff"]
                /\ UNCHANGED <<notified_events, delivered, marked, failedTo, owed,
                               stayed, res, locals>>
           ELSE \* send_message raises, caught at line 684
                /\ failed' = IF p = W THEN Rec("failed", TRUE, failed) ELSE failed
                /\ failedTo' = Rec("owed", [failedTo EXCEPT ![l] = @ \cup {u}], failedTo)
                /\ lastDelivery' = IF u = W[1] THEN Rec("last", "err", lastDelivery)
                                   ELSE lastDelivery
                /\ pc' = [pc EXCEPT ![l] = "backoff"]
                /\ UNCHANGED <<notified_events, marked, delivered, lost, owed, retry,
                               stayed, res, locals>>
    /\ UNCHANGED <<env, seen>>

\* line 686: asyncio.sleep(1) is over and the loops go on
BackoffReturn(l) ==
    /\ pc[l] = "backoff"
    /\ Proceed(l, Scan(notified_events, subscribed_users[l], events[l], now[l],
                       ui[l], ei[l] + 1),
               owed, retry, subscribed_users[l], events[l])
    /\ UNCHANGED <<env, delivered, lost, marked, seen, failed, failedTo,
                   lastDelivery>>

\* asyncio.sleep(CHECK_INTERVAL) is over: back to line 630
Wake(l) ==
    /\ pc[l] = "sleep"
    /\ clock >= wake[l]
    /\ pc' = [pc EXCEPT ![l] = "start"]
    /\ wake' = [wake EXCEPT ![l] = 0]
    /\ UNCHANGED <<env, notified_events, now, url, subscribed_users, events, ui, ei,
                   history>>

\* ------------------------------------------------------------- handlers
\* process_subscribe: refuses without a calendar
process_subscribe(u) ==
    /\ users' = IF calendar = NoCalendar THEN users
                ELSE update_user_subscription(u, TRUE)
    /\ UNCHANGED <<clock, calendar, setup, probe, notified_events, pc, locals, history>>

process_unsubscribe(u) ==
    /\ users' = update_user_subscription(u, FALSE)
    /\ stayed' = (stayed /\ u # W[1])
    /\ UNCHANGED <<clock, calendar, setup, probe, notified_events, pc, locals, res,
                   delivered, lost, marked, seen, failed, retry, lastDelivery, owed, failedTo>>

\* ----------------------------------------------------------------- time
\* The clock starts with the process and is followed TimeStep minutes at a
\* time: a step of it falls after the two tasks were created and between
\* the ticks, when no network call of a tick is pending
TimePasses ==
    /\ clock < MaxClock
    /\ \A l \in Loops : pc[l] \notin InTick \cup {"none"}
    /\ clock' = clock + TimeStep
    /\ UNCHANGED <<calendar, users, setup, probe, notified_events, pc, locals, history>>

Next ==
    \/ main
    \/ on_startup
    \/ \E l \in Loops : TickStart(l)
    \/ \E l \in Loops : FetchReturn(l)
    \/ \E l \in Loops : SendReturn(l)
    \/ \E l \in Loops : BackoffReturn(l)
    \/ \E l \in Loops : Wake(l)
    \/ \E u \in UserIds : process_subscribe(u)
    \/ \E u \in UserIds : process_unsubscribe(u)
    \/ TimePasses

\* The clock under punctual scheduling: it advances only when every task
\* has been created and sleeps, and never past the end of a sleep
TimePassesTimely ==
    /\ \A l \in Loops : pc[l] = "sleep" /\ wake[l] > clock
    /\ TimePasses

NextTimely ==
    \/ main
    \/ on_startup
    \/ \E l \in Loops : TickStart(l)
    \/ \E l \in Loops : FetchReturn(l)
    \/ \E l \in Loops : SendReturn(l)
    \/ \E l \in Loops : BackoffReturn(l)
    \/ \E l \in Loops : Wake(l)
    \/ \E u \in UserIds : process_subscribe(u)
    \/ \E u \in UserIds : process_unsubscribe(u)
    \/ TimePassesTimely

\* The program, with the way each tick ended recorded
Spec == InitWatching({"res"}, {<<1, <<"_">>>>}, TRUE) /\ [][Next]_vars

\* The program with the deliveries of one pair recorded
SpecDelivered == InitWatching({"delivered", "lost"}, Pairs, TRUE) /\ [][Next]_vars

\* The program with, per tick, the mark of one pair at its start recorded
SpecSeen == InitWatching({"marked", "seen"}, Pairs, TRUE) /\ [][Next]_vars

\* The program with the failures of one pair recorded
SpecRetry == InitWatching({"failed", "retry"}, Pairs, TRUE) /\ [][Next]_vars

\* The program with each tick's due pairs and failures recorded
SpecOwed == InitWatching({"owed"}, {<<1, <<"_">>>>}, TRUE) /\ [][Next]_vars

\* The program under punctual scheduling in an environment that does not
\* fail, the deliveries of one pair recorded
SpecTimely ==
    InitWatching({"delivered", "lost", "failed", "last", "stayed"}, Pairs, FALSE)
        /\ [][NextTimely]_vars

\* ------------------------------------------------------------ properties
Standup == event_id(formatted(Feed[2]))
Review == event_id(formatted(Feed[1]))

\* the start of the occurrence with the given id
StartOf(id) ==
    LET i == CHOOSE k \in 1..Len(Feed) : event_id(formatted(Feed[k])) = id
    IN  Feed[i].start

\* the pair whose send_message task l awaits
Awaited(l) == <<subscribed_users[l][ui[l]], event_id(events[l][ei[l]])>>

\* in this step task l calls send_message
Issued(l) ==
    /\ pc'[l] = "send"
    /\ pc[l] # "send" \/ ui'[l] # ui[l] \/ ei'[l] # ei[l]

\* in this step task l ends a tick
TickEnds(l) == pc[l] \in {"start"} \cup InTick /\ pc'[l] = "sleep"

\* C1: over any run, for every (subscriber, occurrence id) pair at most one
\* delivery is submitted successfully and recorded as notified.
C1_AtMostOneDelivery == delivered <= 1

\* C2: once a pair has been marked as notified, no tick that starts later
\* sends a reminder for it again, as long as no tick in between has cleared
\* the record; for every summary text.
C2_NoResendOnceMarked ==
    [][\A l \in Loops : (Issued(l) /\ Awaited(l)' = W) => ~(seen[l] /\ marked)]_vars

\* C3: a delivery that raises an error adds nothing to the record, and every
\* later tick that finds the pair due attempts it before it ends, until an
\* attempt succeeds.
C3_RetryAfterFailure ==
    [][/\ (failed' /\ ~failed) => notified_events' = notified_events
       /\ \A l \in Loops : TickEnds(l) => ~retry'[l]]_vars

\* C4: whenever a delivery call returns without error, its pair is recorded
\* as notified before the scheduler does anything else, under every
\* interleaving with the other tasks that touch the record.
C4_SuccessIsRecorded == ~lost

\* C5: a tick that finds no calendar configured or whose fetch fails leaves
\* an empty record for every recipient, whatever it contained before, and
\* ends without having attempted a delivery.
C5_FailSafeReset ==
    [][\A l \in Loops :
          (TickEnds(l) /\ res'[l].how \in {"no_calendar", "fetch_failed"})
              => /\ notified_events' = EmptyDict
                 /\ pc[l] \in {"start", "fetch"}]_vars

\* a tick has ended with a reset that emptied a populated record
C5_Witness ==
    \E l \in Loops :
        /\ pc[l] = "sleep"
        /\ res[l].how = "fetch_failed"
        /\ res[l].reset
        /\ notified_events = EmptyDict

\* C6: within one tick, if the delivery to recipient A fails, every other
\* subscribed recipient with a due, unrecorded occurrence is still sent its
\* reminder before the tick ends.
C6_DeliveryIsolation ==
    \A l \in Loops :
        pc[l] = "sleep" =>
            \A a \in failedTo[l] : \A p \in owed[l] : p[1] = a

\* C7: no exception inside a tick ends the loop: after it the task sleeps
\* and then starts the next tick.
C7_LoopSurvives ==
    \A l \in Loops :
        /\ pc[l] # "crashed"
        /\ res[l].how = "exception" => pc[l] \in {"sleep", "start"}

\* a task is back at the head of the loop after a tick that raised
C7_Witness == \E l \in Loops : res[l].how = "exception" /\ pc[l] = "start"

\* C8: at every moment at most one tick is in progress.
C8_OneTickAtATime ==
    \A l, k \in Loops : (pc[l] \in InTick /\ pc[k] \in InTick) => l = k

\* the occurrence of the recorded pair starts during the run and has started
Started == T0 <= StartOf(W[2]) /\ StartOf(W[2]) < clock

C10_AttemptIffEligible ==
    [][\A l \in Loops :
          /\ Issued(l) =>
                LET u == Awaited(l)'[1]
                    e == events'[l][ei'[l]]
                IN  /\ now'[l] <= e.start /\ e.start < now'[l] + WindowHours * MinutesPerHour
                    /\ 0 <= time_diff(e, now'[l])
                    /\ time_diff(e, now'[l]) <= NOTIFICATION_TIME
                    /\ event_id(e) \notin notified_events'[u]
          /\ TickEnds(l) => owed'[l] = {}]_vars

\* ------------------------------------------- functions applied on their own
\* The variables of the program, which applying a function leaves alone
program == <<clock, calendar, users, notified_events, pc, locals, setup, history>>

\* The program before its tasks are created, with nobody subscribed, and
\* a function about to be applied to one of the inputs
InitApplying(inputs) ==
    /\ InitProgram({}, {<<1, <<"_">>>>}, FALSE)
    /\ \A u \in UserIds : ~users[u].is_subscribed
    /\ probe \in inputs

\* ---- the cleaning of old notifications, lines 688-691
PruneSummaries == {<<"Standup">>, <<"Plan", "_", "B">>}
\* now: in the morning, and half an hour after midnight
PruneNows == {T0, StartDay * MinutesPerDay + 30}
\* how long before now an occurrence started, in minutes
PruneAges == {0, MinutesPerHour, 23 * MinutesPerHour, 25 * MinutesPerHour,
              2 * MinutesPerDay, 3 * MinutesPerDay}
MaxEntries == 2

\* the entries a record may hold at now
PruneEntries(nw) ==
    {[summary |-> sm, start |-> nw - a] : sm \in PruneSummaries, a \in PruneAges}

\* A Dedup Record of one recipient and the now of the tick that cleans it
PruneInputs ==
    UNION {{[op |-> "prune", now |-> nw, u |-> u, entries |-> es, done |-> FALSE,
             out |-> EmptyDict] :
               u \in UserIds,
               es \in {x \in SUBSET PruneEntries(nw) : Cardinality(x) <= MaxEntries}} :
           nw \in PruneNows}

\* the dict that holds the entries of the probe
Recorded(pr) == [v \in {pr.u} |-> {event_id(e) : e \in pr.entries}]

ApplyPrune ==
    /\ probe.op = "prune" /\ ~probe.done
    /\ probe' = [probe EXCEPT !.done = TRUE, !.out = prune(Recorded(probe), probe.now)]
    /\ UNCHANGED program

SpecPrune == InitApplying(PruneInputs) /\ [][ApplyPrune]_vars

\* C11: the prune step removes every identity whose occurrence started more
\* than 24 hours before now and keeps every identity whose occurrence
\* started within 24 hours of now, for every recipient and summary text.
C11_PruneByAge ==
    (probe.op = "prune" /\ probe.done) =>
        \A e \in probe.entries :
            /\ e.start < probe.now - 24 * MinutesPerHour
                   => event_id(e) \notin probe.out[probe.u]
            /\ e.start >= probe.now - 24 * MinutesPerHour
                   => event_id(e) \in probe.out[probe.u]

\* ---- the Dedup Records over the days, lines 659-697
StoreDays == 3
StoreSummaries == {<<"Standup">>, <<"Plan", "_", "B">>}

\* the now of the ticks followed on day d, and the daily occurrence with
\* summary sm that is due then
StoreNow(d) == d * MinutesPerDay + 10 * MinutesPerHour
StoreEvent(sm, d) == [start |-> StoreNow(d) + 5, summary |-> sm]

\* The ids of occurrences whose start date is more than one day before now
StaleIds(nw) ==
    {event_id(StoreEvent(sm, d)) :
        sm \in StoreSummaries,
        d \in {x \in StartDay..(StartDay + StoreDays) :
                  x < (nw \div MinutesPerDay) - 1}}

StoreInputs ==
    {[op |-> "store", now |-> StoreNow(StartDay), n |-> EmptyDict, pruned |-> FALSE,
      last |-> "none"]}

\* A tick at probe.now: the reminders of the due occurrences in sms are
\* delivered to the recipients us and recorded (lines 659-683); then the
\* tick goes on to the cleaning (lines 689-691), or an exception takes it
\* to line 693
RECURSIVE RecordAll(_, _, _)
RecordAll(n, us, ids) ==
    IF us = {} THEN n
    ELSE LET u == CHOOSE x \in us : TRUE
         IN  RecordAll([v \in DOMAIN n \cup {u} |->
                           IF v = u THEN Ensure(n, u)[u] \cup ids ELSE n[v]],
                       us \ {u}, ids)

StoreTick(us, sms, ending) ==
    /\ probe.op = "store"
    /\ LET day == probe.now \div MinutesPerDay
           n1 == RecordAll(probe.n, us, {event_id(StoreEvent(sm, day)) : sm \in sms})
       IN  probe' = [probe EXCEPT
                        !.n = IF ending = "done" THEN prune(n1, probe.now) ELSE n1,
                        !.pruned = @ \/ ending = "done",
                        !.last = ending]
    /\ UNCHANGED program

\* The ticks go on, CHECK_INTERVAL apart; the next one followed is a day
\* later, after a tick of this day that reached the cleaning
StoreNextDay ==
    /\ probe.op = "store"
    /\ probe.pruned
    /\ probe.now < StoreNow(StartDay + StoreDays)
    /\ probe' = [probe EXCEPT !.now = @ + MinutesPerDay, !.pruned = FALSE,
                              !.last = "none"]
    /\ UNCHANGED program

NextStore ==
    \/ \E us \in SUBSET UserIds, sms \in SUBSET StoreSummaries,
          ending \in {"done", "exception"} : StoreTick(us, sms, ending)
    \/ StoreNextDay

SpecStore == InitApplying(StoreInputs) /\ [][NextStore]_vars

\* C12: at the end of every tick, also one that ends in a caught exception,
\* no Dedup Record holds an identity whose occurrence start date is more
\* than one day before that tick's now.
C12_StoreBounded ==
    (probe.op = "store" /\ probe.last # "none") =>
        \A u \in DOMAIN probe.n : probe.n[u] \cap StaleIds(probe.now) = {}

\* ------------------------------------------------------------- shutdown
\* dp.start_polling returns on SIGINT or SIGTERM, main returns, and
\* asyncio.run cancels the tasks that are left: CancelledError is raised at
\* the await where each scheduler task is suspended.  It is not an
\* Exception, so neither line 684 nor line 693 catches it: the finally
\* clause runs and the task is over, whatever it was waiting for.
Running == \A l \in Loops : pc[l] # "cancelled"

shutdown ==
    /\ \A l \in Loops : pc[l] \in InTick \cup {"sleep", "crashed"}
    /\ pc' = [l \in Loops |-> IF pc[l] = "crashed" THEN "crashed" ELSE "cancelled"]
    /\ UNCHANGED <<env, notified_events, locals, history>>

NextShutdown ==
    \/ Running /\ Next
    \/ shutdown

\* The program until it is shut down
SpecShutdown == InitWatching({}, {<<1, <<"_">>>>}, TRUE) /\ [][NextShutdown]_vars

\* C13: on an external cancellation a tick in progress is not cut off in
\* the middle of a delivery: the delivery that a task awaits when the
\* cancellation arrives finishes and its success is recorded.
C13_GracefulStop ==
    [][\A l \in Loops :
          (pc[l] = "send" /\ pc'[l] = "cancelled") =>
              /\ Awaited(l)[1] \in DOMAIN notified_events'
              /\ Awaited(l)[2] \in notified_events'[Awaited(l)[1]]]_vars

\* C14: every reminder is delivered to a recipient whose subscribed flag is
\* true at the moment the delivery is issued, also when handlers ran while
\* the tick was suspended.
C14_FreshSubscription ==
    [][\A l \in Loops :
          Issued(l) => users'[subscribed_users'[l][ui'[l]]].is_subscribed]_vars

\* ---- the texts shown for an occurrence
\* A text is a sequence of tokens; its length in characters
RECURSIVE len(_)
len(text) == IF text = <<>> THEN 0 ELSE Len(text[1]) + len(Tail(text))

\* text[:k], for a text whose tokens up to character k are single characters
RECURSIVE upto(_, _)
upto(text, k) ==
    IF text = <<>> \/ Len(text[1]) > k THEN <<>>
    ELSE <<text[1]>> \o upto(Tail(text), k - Len(text[1]))

\* start.strftime("%d.%m.%Y %H:%M")
strftime(t) == <<"0" \o ToString(t \div MinutesPerDay) \o ".11.2026",
                ToString((t % MinutesPerDay) \div MinutesPerHour) \o ":"
                    \o ToString(t % MinutesPerHour)>>

\* One line of a rendered text: the sign it starts with and the field
Line(label, value) == [label |-> label, value |-> value]

\* lines 675-676 of bot.py and 70-71 of calendar_utils.py
LocationLine(event) ==
    IF event.location # <<"Bez mesta">> THEN <<Line("location", event.location)>>
    ELSE <<>>

\* bot.py lines 671-679: the text of a reminder
reminder_text(event) ==
    <<Line("bell", <<"Skoro nachnetsya sobytie!">>),
      Line("time", strftime(event.start)),
      Line("summary", event.summary)>>
    \o LocationLine(event)
    \o (IF event.description # <<"Bez opisaniya">>
        THEN <<Line("description", event.description)>> ELSE <<>>)

\* calendar_utils.py lines 60-82: the text of a list of occurrences
RECURSIVE event_lines(_)
event_lines(evs) ==
    IF evs = <<>> THEN <<>>
    ELSE LET event == evs[1]
             description == IF len(event.description) > 100
                            THEN upto(event.description, 97) \o <<"...">>
                            ELSE event.description
         IN  <<Line("time", strftime(event.start)),
               Line("summary", event.summary)>>
             \o LocationLine(event)
             \o (IF event.description # <<"Bez opisaniya">>
                 THEN <<Line("description", description)>> ELSE <<>>)
             \o event_lines(Tail(evs))

format_events_text(evs) ==
    IF evs = <<>> THEN <<Line("none", <<"Net predstoyashchikh sobytii na vybrannyi period.">>)>>
    ELSE <<Line("calendar", <<"Predstoyashchie sobytiya:">>)>> \o event_lines(evs)

\* The value a property of a VEVENT may have: a text, the empty text, or
\* a text of more than 100 characters; or the VEVENT lacks the property
LongText == [i \in 1..101 |-> "x"]
FieldValues == {<<>>, <<"Daily">>, LongText}
Fields == {"summary", "description", "location"}
Placeholder(name) ==
    CASE name = "summary" -> <<"Bez nazvaniya">>
      [] name = "description" -> <<"Bez opisaniya">>
      [] name = "location" -> <<"Bez mesta">>

\* The VEVENTs with any of the three properties missing or empty
RenderEvents ==
    UNION {[{"start", "dur"} \cup have -> {0}] : have \in SUBSET Fields}

RenderInputs ==
    UNION {{[op |-> "render",
             vevent |-> [name \in DOMAIN shape |->
                            CASE name = "start" -> t
                              [] name = "dur" -> 30
                              [] OTHER -> val[name]],
             done |-> FALSE, events |-> <<>>, reminder |-> <<>>, list |-> <<>>] :
               t \in {T0 + 5, T0 + 15}, val \in [Fields -> FieldValues]} :
           shape \in RenderEvents}

\* get_events on a calendar with the one VEVENT, then the two texts
ApplyRender ==
    /\ probe.op = "render" /\ ~probe.done
    /\ LET evs == get_events(<<probe.vevent>>, T0, T0 + WindowHours * MinutesPerHour)
       IN  probe' = [probe EXCEPT !.done = TRUE, !.events = evs,
                                  !.reminder = reminder_text(evs[1]),
                                  !.list = format_events_text(evs)]
    /\ UNCHANGED program

SpecRender == InitApplying(RenderInputs) /\ [][ApplyRender]_vars

Shows(text, label, value) == \E i \in 1..Len(text) : text[i] = Line(label, value)

\* C15: an occurrence lacking a summary, location or description gets the
\* placeholder; the reminder and the list show the placeholder for a missing
\* location or description; no rendered field is empty, whichever fields
\* are missing or empty.
C15_PlaceholdersShown ==
    (probe.op = "render" /\ probe.done) =>
        /\ \A name \in Fields \ DOMAIN probe.vevent :
               probe.events[1][name] = Placeholder(name)
        /\ \A name \in {"location", "description"} \ DOMAIN probe.vevent :
               /\ Shows(probe.reminder, name, Placeholder(name))
               /\ Shows(probe.list, name, Placeholder(name))
        /\ \A i \in 1..Len(probe.reminder) : probe.reminder[i].value # <<>>
        /\ \A i \in 1..Len(probe.list) : probe.list[i].value # <<>>

\* ---- the calendars table and the handlers that save to it
MaxSaves == 2
BadUrl == "ftp://calendar.example/feed.ics"
\* message.text.strip() of the message a user answers with
Texts == Urls \cup {BadUrl}
\* url.startswith(("http://", "https://")), line 190
IsHttp(text) == text \in Urls

Row(u, by) == [url |-> u, updated_by |-> by]

\* A create_or_update_calendar that adds a row at every call
create_calendar_always(rows, u, by) == Append(rows, Row(u, by))

\* db_utils.py lines 76-90, on the rows of the calendars table in the
\* order of db.query(Calendar)
create_or_update_calendar(rows, u, by) ==
    IF rows # <<>>                                   \* get_calendar: .first()
    THEN [rows EXCEPT ![1] = Row(u, by)]             \* lines 81-82
    ELSE Append(rows, Row(u, by))                    \* lines 84-85

\* the handler that ran last, for whom, with which text and what came of it
Handled(u, text, what) == [who |-> u, text |-> text, what |-> what]

\* The table when the program starts, the users with is_admin or is_owner,
\* nobody asked for a URL and no process_calendar_url suspended
CalendarInputs ==
    {[op |-> "calendar", rows |-> rows, admins |-> a,
      waiting |-> {}, fetching |-> {}, saved |-> NoCalendar, saves |-> 0,
      last |-> Handled(0, NoCalendar, "none")] :
        rows \in {<<>>, <<Row(Url, 1)>>}, a \in SUBSET UserIds}

\* An add_calendar button that asks anybody for the URL
process_add_calendar_anyone(u) ==
    /\ probe.op = "calendar"
    /\ probe' = [probe EXCEPT !.waiting = @ \cup {u},
                              !.last = Handled(u, NoCalendar, "asked")]
    /\ UNCHANGED program

\* bot.py lines 128-158: the add_calendar and change_calendar buttons
process_add_calendar(u) ==
    /\ probe.op = "calendar"
    /\ probe' = IF u \in probe.admins
                THEN [probe EXCEPT !.waiting = @ \cup {u},
                                   !.last = Handled(u, NoCalendar, "asked")]
                ELSE [probe EXCEPT !.last = Handled(u, NoCalendar, "refused")]
    /\ UNCHANGED program

\* bot.py lines 161-181: state.clear()
process_cancel(u) ==
    /\ probe.op = "calendar"
    /\ probe' = [probe EXCEPT !.waiting = @ \ {u},
                              !.last = Handled(u, NoCalendar, "cancelled")]
    /\ UNCHANGED program

\* bot.py lines 184-201: a message of a user in the state
\* waiting_for_calendar_url, up to the await of fetch_calendar
process_calendar_url(u, text) ==
    /\ probe.op = "calendar"
    /\ u \in probe.waiting
    /\ probe' = IF IsHttp(text)
                THEN [probe EXCEPT !.fetching = @ \cup {<<u, text>>},
                                   !.last = Handled(u, text, "fetching")]
                ELSE [probe EXCEPT !.last = Handled(u, text, "invalid")]
    /\ UNCHANGED program

\* bot.py lines 201-232: fetch_calendar returns to the handler
CalendarFetched(u, text) ==
    /\ probe.op = "calendar"
    /\ <<u, text>> \in probe.fetching
    /\ \E resp \in {Served(text), Refused} :
          IF fetch_calendar(resp).ok
          THEN probe' = [probe EXCEPT
                            !.fetching = @ \ {<<u, text>>},
                            !.rows = create_or_update_calendar(@, text, u),
                            !.waiting = @ \ {u},
                            !.saved = text,
                            !.saves = IF @ < MaxSaves THEN @ + 1 ELSE @,
                            !.last = Handled(u, text, "saved")]
          ELSE probe' = [probe EXCEPT !.fetching = @ \ {<<u, text>>},
                                      !.last = Handled(u, text, "failed")]
    /\ UNCHANGED program

NextCalendar ==
    \/ \E u \in UserIds : process_add_calendar(u)
    \/ \E u \in UserIds : process_cancel(u)
    \/ \E u \in UserIds, text \in Texts : process_calendar_url(u, text)
    \/ \E u \in UserIds, text \in Texts : CalendarFetched(u, text)

SpecCalendar == InitApplying(CalendarInputs) /\ [][NextCalendar]_vars

\* C16: there is at most one calendar record at any time, and after the
\* add-calendar and change-calendar actions of any users that saved a URL
\* exactly one record is stored, with the URL saved last.
C16_OneCalendar ==
    probe.op = "calendar" =>
        /\ Len(probe.rows) <= 1
        /\ probe.saved # NoCalendar =>
               Len(probe.rows) = 1 /\ probe.rows[1].url = probe.saved

\* two users have saved, the second a different URL than the first
C16_Witness ==
    /\ probe.op = "calendar"
    /\ probe.saves = 2
    /\ probe.rows = <<Row(Url2, 2)>>
    /\ probe.fetching = {<<1, Url>>}

\* C17: every tick, whether the calendar is absent, the fetch fails, the
\* tick completes or an exception is caught, is followed by exactly one
\* sleep of the check interval before the next tick of the task starts.
C17_OneSleepPerTick ==
    [][\A l \in Loops :
          /\ TickEnds(l) => wake'[l] = clock + TimeStep
          /\ (pc'[l] = "start" /\ pc[l] # "start") =>
                 \/ pc[l] = "none"
                 \/ pc[l] = "sleep" /\ clock >= wake[l]]_vars

\* a tick that found the fetch failing and one that caught an exception
\* have slept and the next ticks are about to start
C17_Witness ==
    /\ pc["main"] = "start" /\ res["main"].how = "fetch_failed"
    /\ pc["on_startup"] = "start" /\ res["on_startup"].how = "exception"
    /\ clock = T0 + TimeStep

\* ---------------------------------------------- a change of the calendar
\* process_calendar_url saves a URL (bot.py line 219): the calendars table
\* holds it from then on
save_calendar(text) ==
    /\ text \in Urls
    /\ calendar' = text
    /\ UNCHANGED <<clock, users, setup, probe, notified_events, pc, locals, history>>

NextSaving ==
    \/ Next
    \/ \E text \in Urls : save_calendar(text)

\* The program with a calendar that users change, without failures
SpecSaving == InitWatching({}, {<<1, <<"_">>>>}, FALSE) /\ [][NextSaving]_vars

\* C18: every tick with a configured calendar fetches the calendar anew
\* from the URL stored when the tick looks it up, and its reminders are
\* computed from that document: a URL change is used by the first tick
\* that starts after the change.
C18_FreshFetch ==
    [][\A l \in Loops :
          /\ (pc[l] = "start" /\ pc'[l] = "fetch") => url'[l] = calendar'
          /\ pc'[l] \in {"send", "backoff"} =>
                 events'[l] = get_events(Document(url'[l]), now'[l],
                                         now'[l] + WindowHours * MinutesPerHour)]_vars

\* a recipient was reminded of an occurrence of the first document, and the
\* next tick reminds them of an occurrence of the document at the new URL
C18_Witness ==
    /\ pc["main"] = "send"
    /\ url["main"] = Url2
    /\ now["main"] = T0 + TimeStep
    /\ events["main"][ei["main"]].summary = <<"Moved">>
    /\ Awaited("main")[1] \in DOMAIN notified_events
    /\ Standup \in notified_events[Awaited("main")[1]]

\* ---- fetch_calendar on its own
Statuses == {200, 201, 204, 301, 302, 304, 400, 401, 403, 404, 410, 429, 500, 502, 503}
\* what session.get(url) or response.text() raises, if anything
FetchErrors == {"none", "ClientConnectorError", "TimeoutError", "ClientPayloadError"}
\* bodies: two calendars, a calendar without a VEVENT, a text that is no calendar
Bodies == {Body(Feed), Body(Feed2), Body(<<>>), NoBody}

FetchInputs ==
    {[op |-> "fetch",
      resp |-> [error |-> e, status |-> IF e \in {"none", "ClientPayloadError"} THEN st ELSE 0,
                body |-> IF e = "none" THEN b ELSE NoBody],
      done |-> FALSE, out |-> None] :
        e \in FetchErrors, st \in Statuses, b \in Bodies}

ApplyFetch ==
    /\ probe.op = "fetch" /\ ~probe.done
    /\ probe' = [probe EXCEPT !.done = TRUE, !.out = fetch_calendar(probe.resp)]
    /\ UNCHANGED program

SpecFetch == InitApplying(FetchInputs) /\ [][ApplyFetch]_vars

\* C19: fetch_calendar never raises and returns None for every status other
\* than 200, every network error and every parse error; it returns a
\* calendar document only for status 200 with a body that parses.
C19_UnavailableNotRaised ==
    (probe.op = "fetch" /\ probe.done) =>
        /\ probe.out.raised = "none"
        /\ probe.out.ok <=> /\ probe.resp.error = "none"
                            /\ probe.resp.status = 200
                            /\ probe.resp.body.parsable
        /\ probe.out.ok => probe.out.doc = probe.resp.body.doc
        /\ ~probe.out.ok => probe.out = None

\* status 200 with a body that is no calendar: the result is None
C19_Witness ==
    /\ probe.op = "fetch" /\ probe.done
    /\ probe.resp.error = "none" /\ probe.resp.status = 200
    /\ ~probe.resp.body.parsable
    /\ probe.out = None

\* ---- the start of an occurrence, calendar_utils.py lines 35-43
\* A datetime: its wall-clock reading in minutes, and its tzinfo when it is
\* aware (off: minutes east of UTC)
Naive(wall) == [wall |-> wall, aware |-> FALSE, off |-> 0]

\* datetime.combine(date, time.min), for the date numbered day
combine(day) == Naive(day * MinutesPerDay)

\* start.replace(tzinfo=...): the same reading, in another zone
replace_tzinfo(dt, off) == [wall |-> dt.wall, aware |-> TRUE, off |-> off]

\* start.astimezone(...): the same instant, read in another zone
astimezone(dt, off) == [wall |-> dt.wall - dt.off + off, aware |-> TRUE, off |-> off]

\* lines 35-43: dtstart is a date or a datetime; local is the offset of
\* tz.tzlocal()
normalized_start(dtstart, local) ==
    LET start == IF dtstart.kind = "date" THEN combine(dtstart.day)   \* lines 37-38
                 ELSE dtstart.dt
    IN  IF ~start.aware
        THEN astimezone(replace_tzinfo(start, 0), local)              \* lines 41-43
        ELSE start

\* the offsets of the time zones, UTC-12 to UTC+14, in minutes
LocalOffsets == {h * MinutesPerHour : h \in (0 - 12)..14}
AllDayDays == (StartDay - 1)..(StartDay + 2)

\* DTSTART values: a date, or a datetime without a zone
StartInputs ==
    {[op |-> "start", dtstart |-> d, local |-> off, done |-> FALSE, out |-> Naive(0)] :
        d \in {[kind |-> "date", day |-> day, dt |-> Naive(0)] : day \in AllDayDays}
           \cup {[kind |-> "datetime", day |-> 0, dt |-> Naive(T0 + 5)]},
        off \in LocalOffsets}

ApplyStart ==
    /\ probe.op = "start" /\ ~probe.done
    /\ probe' = [probe EXCEPT !.done = TRUE,
                              !.out = normalized_start(probe.dtstart, probe.local)]
    /\ UNCHANGED program

SpecStart == InitApplying(StartInputs) /\ [][ApplyStart]_vars

\* C20: for every all-day event and every local timezone offset, the start
\* that get_events produces is midnight, local time, of the event's date.
C20_AllDayLocalMidnight ==
    (probe.op = "start" /\ probe.done /\ probe.dtstart.kind = "date") =>
        /\ probe.out.aware
        /\ probe.out.off = probe.local
        /\ probe.out.wall = probe.dtstart.day * MinutesPerDay

\* ---- a weekly event in a window of seven days
Week == 7 * MinutesPerDay
\* DTSTART of the event, its duration, and where the window starts
\* relative to DTSTART
WeeklyStarts == {T0, T0 + 3 * MinutesPerDay}
WeeklyDurations == {0, 30, MinutesPerDay}
WindowShifts == {0 - 8 * MinutesPerDay, 0 - Week, 0 - 10, 0, 10, 30, MinutesPerDay,
                 Week - 10, Week, Week + 10, 2 * Week + 20, 3 * Week}

WeeklyInputs ==
    {[op |-> "weekly",
      vevent |-> [start |-> s0, dur |-> d, summary |-> <<"Standup">>,
                  rrule |-> [freq |-> "WEEKLY"]],
      from |-> s0 + sh, done |-> FALSE, out |-> <<>>] :
        s0 \in WeeklyStarts, d \in WeeklyDurations, sh \in WindowShifts}

ApplyWeekly ==
    /\ probe.op = "weekly" /\ ~probe.done
    /\ probe' = [probe EXCEPT !.done = TRUE,
                              !.out = get_events(<<probe.vevent>>, probe.from,
                                                 probe.from + Week)]
    /\ UNCHANGED program

SpecWeekly == InitApplying(WeeklyInputs) /\ [][ApplyWeekly]_vars

\* the occurrences of the result that start in the window, and those that
\* started before it
StartingIn(pr) == {i \in 1..Len(pr.out) :
                      pr.from <= pr.out[i].start /\ pr.out[i].start < pr.from + Week}
Ongoing(pr) == {i \in 1..Len(pr.out) : pr.out[i].start < pr.from}

TwinId == event_id(formatted(FeedTwins[1]))

\* The program with the calendar of the twins stored, without failures,
\* and the deliveries of their identity to one recipient recorded
InitTwins ==
    /\ InitStored({"delivered", "lost"}, UserIds \X {TwinId}, FALSE, {UrlTwins})
    /\ probe = NoProbe

SpecTwins == InitTwins /\ [][Next]_vars

\* C22: two distinct events with the same summary and start share one
\* identity, and each recipient is sent only one reminder for the two of
\* them, within a tick and across ticks.
C22_OneReminderForTwins ==
    /\ event_id(formatted(FeedTwins[1])) = event_id(formatted(FeedTwins[2]))
    /\ delivered + (IF lost THEN 1 ELSE 0) <= 1

\* ---- marking a pair in the Dedup Record, lines 662-663 and 683
\* line 670: event_id in notified_events[user_id]
has(n, u, id) == id \in n[u]

\* the dicts of the recipients' records
Dicts == UNION {[S -> SUBSET AllIds] : S \in SUBSET UserIds}

MarkInputs ==
    {[op |-> "mark", before |-> n, n |-> n, u |-> p[1], id |-> p[2], marks |-> 0,
      once |-> n] : n \in Dicts, p \in Pairs}

\* the record of the recipient is made if it is missing, and the id added
ApplyMark ==
    /\ probe.op = "mark" /\ probe.marks < 2
    /\ LET n1 == add(Ensure(probe.n, probe.u), probe.u, probe.id)
       IN  probe' = [probe EXCEPT !.n = n1, !.marks = @ + 1,
                                  !.once = IF probe.marks = 0 THEN n1 ELSE @]
    /\ UNCHANGED program

SpecMark == InitApplying(MarkInputs) /\ [][ApplyMark]_vars

\* C23: marking a (recipient, identity) pair twice leaves the Dedup Record
\* as marking it once does, and has() is true after either.
C23_MarkIdempotent ==
    (probe.op = "mark" /\ probe.marks >= 1) =>
        /\ has(probe.n, probe.u, probe.id)
        /\ probe.n = probe.once
        /\ \A v \in DOMAIN probe.before :
               probe.n[v] = probe.before[v] \cup (IF v = probe.u THEN {probe.id} ELSE {})

\* a pair marked twice whose recipient had no record before
C23_Witness ==
    /\ probe.op = "mark" /\ probe.marks = 2
    /\ probe.u \notin DOMAIN probe.before
    /\ probe.n[probe.u] = {probe.id}

\* ---- the users table and the handlers of the administrator dialogs
\* the Telegram ids that act or are typed: the users and one more
People == UserIds \cup {NUsers + 1}
\* config.py line 21: the OWNER_ID of the environment, 0 when it is unset
OwnerIds == {0, 1}
NoUser == [known |-> FALSE, is_owner |-> FALSE, is_admin |-> FALSE]
\* the FSM state of a user and its data
NoDialog == [state |-> "none", action |-> "none"]

\* db_utils.py lines 12-34
create_user(table, id, owner_id) ==
    [table EXCEPT ![id] = [known |-> TRUE, is_owner |-> id = owner_id,
                           is_admin |-> id = owner_id]]

\* db_utils.py lines 37-43
get_or_create_user(table, id, owner_id) ==
    IF table[id].known THEN table ELSE create_user(table, id, owner_id)

\* db_utils.py lines 56-63
set_user_admin(table, id, is_admin) ==
    IF table[id].known THEN [table EXCEPT ![id].is_admin = is_admin] ELSE table

\* message.text of the answers, and int(message.text.strip()), line 469
IdTexts == {"1", "2", " 3 ", "abc", "2.0"}
strip(text) == IF text = " 3 " THEN "3" ELSE text
int(text) ==
    CASE text = "1" -> [ok |-> TRUE, value |-> 1]
      [] text = "2" -> [ok |-> TRUE, value |-> 2]
      [] text = "3" -> [ok |-> TRUE, value |-> 3]
      [] OTHER -> [ok |-> FALSE, value |-> 0]             \* ValueError

\* The empty users table, no dialog open and no request sent to the owner
AdminInputs ==
    {[op |-> "admin", owner_id |-> o, table |-> [x \in People |-> NoUser],
      dialog |-> [x \in People |-> NoDialog], requests |-> {},
      grants |-> {}, pressed |-> [x \in People |-> "none"],
      flow |-> [x \in People |-> "none"]] : o \in OwnerIds}

\* the rows whose is_admin a handler run by `by` has turned to True
Granted(old, new, by, owner_id) ==
    {[by |-> by, to |-> x,
      how |-> IF ~old[x].known /\ x = owner_id THEN "create" ELSE "set"] :
        x \in {y \in People : ~old[y].is_admin /\ new[y].is_admin}}

\* bot.py lines 90-126: /start, state.clear() and get_or_create_user
cmd_start(u) ==
    /\ probe.op = "admin"
    /\ LET t == get_or_create_user(probe.table, u, probe.owner_id)
       IN  probe' = [probe EXCEPT
                        !.table = t,
                        !.dialog[u] = NoDialog,
                        !.pressed[u] = "none",
                        !.grants = @ \cup Granted(probe.table, t, u, probe.owner_id)]
    /\ UNCHANGED program

\* bot.py lines 161-181 in an administrator dialog: state.clear()
process_cancel_admin(u) ==
    /\ probe.op = "admin"
    /\ probe.dialog[u].state # "none"
    /\ LET t == get_or_create_user(probe.table, u, probe.owner_id)
       IN  probe' = [probe EXCEPT
                        !.table = t,
                        !.dialog[u] = NoDialog,
                        !.pressed[u] = "none",
                        !.grants = @ \cup Granted(probe.table, t, u, probe.owner_id)]
    /\ UNCHANGED program

\* bot.py lines 413-444: the button add_admin
process_add_admin(u) ==
    /\ probe.op = "admin"
    /\ LET t == get_or_create_user(probe.table, u, probe.owner_id)
           g == Granted(probe.table, t, u, probe.owner_id)
       IN  IF ~t[u].is_owner                                   \* line 424
           THEN probe' = [probe EXCEPT !.table = t, !.grants = @ \cup g]
           ELSE probe' = [probe EXCEPT
                            !.table = t, !.grants = @ \cup g,
                            !.dialog[u].state = "waiting_for_admin_id", \* line 442
                            !.pressed[u] = "add"]
    /\ UNCHANGED program

\* bot.py lines 501-535: the button remove_admin
process_remove_admin(u) ==
    /\ probe.op = "admin"
    /\ LET t == get_or_create_user(probe.table, u, probe.owner_id)
           g == Granted(probe.table, t, u, probe.owner_id)
       IN  IF ~t[u].is_owner                                   \* line 512
           THEN probe' = [probe EXCEPT !.table = t, !.grants = @ \cup g]
           ELSE probe' = [probe EXCEPT
                            !.table = t, !.grants = @ \cup g,
                            !.dialog[u] = [state |-> "waiting_for_admin_id", \* line 530
                                           action |-> "remove_admin"],      \* line 533
                            !.pressed[u] = "remove"]
    /\ UNCHANGED program

\* bot.py lines 447-498: a message of a user in the state waiting_for_admin_id
process_admin_id(u, text) ==
    /\ probe.op = "admin"
    /\ probe.dialog[u].state = "waiting_for_admin_id"
    /\ LET t == get_or_create_user(probe.table, u, probe.owner_id)
           admin_id == int(strip(text))
       IN  IF ~t[u].is_owner                                   \* line 458
           THEN probe' = [probe EXCEPT !.table = t, !.dialog[u] = NoDialog,
                                       !.pressed[u] = "none"]
           ELSE IF ~admin_id.ok                                \* lines 470-477
           THEN probe' = [probe EXCEPT !.table = t]
           ELSE LET t2 == set_user_admin(                      \* lines 480-485
                              get_or_create_user(t, admin_id.value, probe.owner_id),
                              admin_id.value, TRUE)
                IN  probe' = [probe EXCEPT
                                !.table = t2,
                                !.dialog[u] = NoDialog,        \* line 486
                                !.grants = @ \cup Granted(probe.table, t2, u, probe.owner_id),
                                !.flow[admin_id.value] = probe.pressed[u],
                                !.pressed[u] = "none"]
    /\ UNCHANGED program

\* bot.py lines 538-582: the button request_calendar
process_request_calendar(u) ==
    /\ probe.op = "admin"
    /\ LET t == get_or_create_user(probe.table, u, probe.owner_id)
       IN  probe' = [probe EXCEPT
                        !.table = t,
                        !.grants = @ \cup Granted(probe.table, t, u, probe.owner_id),
                        !.requests = IF probe.owner_id # 0      \* line 552
                                     THEN @ \cup {u} ELSE @]
    /\ UNCHANGED program

\* A make_admin handler that does not ask who pressed the button
process_make_admin_unchecked(u, x) ==
    /\ probe.op = "admin"
    /\ x \in probe.requests
    /\ LET t == get_or_create_user(probe.table, u, probe.owner_id)
           t2 == set_user_admin(get_or_create_user(t, x, probe.owner_id), x, TRUE)
       IN  probe' = [probe EXCEPT
                        !.table = t2,
                        !.grants = @ \cup Granted(probe.table, t2, u, probe.owner_id),
                        !.flow[x] = "add"]
    /\ UNCHANGED program

\* bot.py lines 585-622: callback data make_admin_<x>, sent by any client
process_make_admin_from_request(u, x) ==
    /\ probe.op = "admin"
    /\ x \in probe.requests
    /\ LET t == get_or_create_user(probe.table, u, probe.owner_id)
           t2 == set_user_admin(get_or_create_user(t, x, probe.owner_id), x, TRUE)
       IN  IF ~t[u].is_owner                                   \* line 596
           THEN probe' = [probe EXCEPT
                            !.table = t,
                            !.grants = @ \cup Granted(probe.table, t, u, probe.owner_id)]
           ELSE probe' = [probe EXCEPT
                            !.table = t2,
                            !.grants = @ \cup Granted(probe.table, t2, u, probe.owner_id),
                            !.flow[x] = "add"]
    /\ UNCHANGED program

NextAdmin ==
    \/ \E u \in People : cmd_start(u)
    \/ \E u \in People : process_cancel_admin(u)
    \/ \E u \in People : process_add_admin(u)
    \/ \E u \in People : process_remove_admin(u)
    \/ \E u \in People, text \in IdTexts : process_admin_id(u, text)
    \/ \E u \in People : process_request_calendar(u)
    \/ \E u \in People, x \in People : process_make_admin_from_request(u, x)

SpecAdmin == InitApplying(AdminInputs) /\ [][NextAdmin]_vars

\* C24: after the owner has pressed "remove admin" and sent the id of a
\* user, that user has no administrator rights.
C24_RemovedIsNoAdmin ==
    probe.op = "admin" =>
        \A x \in People :
            probe.flow[x] = "remove" => ~probe.table[x].is_admin

\* C25: is_admin becomes true only in a handler run for a user whose
\* is_owner is true, or when the owner's own record is created, and every
\* owner is an admin.
C25_OnlyOwnerGrants ==
    probe.op = "admin" =>
        /\ \A g \in probe.grants :
               \/ probe.table[g.by].known /\ probe.table[g.by].is_owner
               \/ g.how = "create" /\ g.to = probe.owner_id /\ g.by = g.to
        /\ \A x \in People :
               /\ probe.table[x].is_owner => probe.table[x].is_admin
               /\ probe.table[x].is_admin => \E g \in probe.grants : g.to = x
               /\ probe.table[x].is_owner => x = probe.owner_id

\* the owner has made one user admin by typing the id and another through
\* the request button, while a third user's attempts were refused
C25_Witness ==
    /\ probe.op = "admin"
    /\ probe.owner_id = 1
    /\ [by |-> 1, to |-> 1, how |-> "create"] \in probe.grants
    /\ [by |-> 1, to |-> 2, how |-> "set"] \in probe.grants
    /\ probe.table[3].known /\ ~probe.table[3].is_admin
    /\ 3 \in probe.requests
    /\ probe.flow[2] = "add"

\* ---- the calendar dialogs of several users while the owner names admins
\* bot.py lines 485 and 608: set_user_admin(db, admin_id, True) for a user
\* who was no admin
make_admin(x) ==
    /\ probe.op = "calendar"
    /\ x \notin probe.admins
    /\ probe' = [probe EXCEPT !.admins = @ \cup {x},
                              !.last = Handled(x, NoCalendar, "made admin")]
    /\ UNCHANGED program

NextDialogs ==
    \/ NextCalendar
    \/ \E x \in UserIds : make_admin(x)

SpecDialogs == InitApplying(CalendarInputs) /\ [][NextDialogs]_vars

\* the stored calendar and the users waiting for a URL
Stored == <<probe.rows, probe.waiting>>

\* C26: the stored calendar URL is written only for a user who is admin or
\* owner, with a URL that passed the prefix check and was fetched, and a
\* handler that finds the URL invalid or the fetch failed leaves the stored
\* calendar and the waiting state as they were.
C26_GuardedWrite ==
    /\ [](probe.op = "calendar" /\ probe.last.what = "saved" =>
             /\ probe.last.who \in probe.admins
             /\ probe.last.text \in Urls
             /\ fetch_calendar(Served(probe.last.text)).ok
             /\ probe.rows = <<Row(probe.last.text, probe.last.who)>>)
    /\ [][probe.op = "calendar" =>
             /\ probe.rows' # probe.rows =>
                    /\ probe.last'.what = "saved"
                    /\ <<probe.last'.who, probe.last'.text>> \in probe.fetching
             /\ probe.last'.what \in {"invalid", "failed", "refused"} =>
                    Stored' = Stored]_vars

\* user 1 has saved a calendar, and then the fetch of the URL user 2 sent
\* failed: the calendar of user 1 is stored and user 2 still waits
C26_Witness ==
    /\ probe.op = "calendar"
    /\ probe.last = Handled(2, Url2, "failed")
    /\ probe.rows = <<Row(Url, 1)>>
    /\ probe.saves = 1
    /\ 2 \in probe.waiting

\* ---- the Dedup Record under the handlers
\* The program with users who subscribe, unsubscribe and change the
\* calendar, without failures, the mark of one pair recorded
SpecResub ==
    InitWatching({"marked"}, {<<1, Review>>}, FALSE) /\ [][NextSaving]_vars

\* C27: the handlers that subscribe, unsubscribe and save a calendar URL
\* leave the Dedup Record unchanged, and in a run whose fetches all succeed
\* a pair once marked is not sent again, whatever the recipient
\* unsubscribed and subscribed and whichever URL was saved in between.
C27_OnlySchedulerWrites ==
    /\ [][(users' # users \/ calendar' # calendar) =>
             notified_events' = notified_events]_vars
    /\ [][\A l \in Loops : (Issued(l) /\ Awaited(l)' = W) => ~marked]_vars

\* ---- a tick that ends in the except clause of line 693
\* The program with the way each tick ended and the record an aborted tick
\* left recorded
SpecAborted == InitWatching({"res", "snap"}, {<<1, <<"_">>>>}, TRUE) /\ [][Next]_vars

\* every mark of dict m is in the Dedup Record n
Kept(m, n) ==
    \A u \in DOMAIN m : m[u] # {} => u \in DOMAIN n /\ m[u] \subseteq n[u]

\* C28: a tick that ends in a caught unexpected exception does not reset
\* the Dedup Record: the marks present when it is caught are all present
\* until the task starts its next tick, and the aborted tick marks nothing
\* it did not send, so that the next tick finds the unsent reminders due.
C28_AbortKeepsMarks ==
    /\ [][\A l \in Loops :
            (TickEnds(l) /\ res'[l].how = "exception") =>
                /\ Kept(notified_events, notified_events')
                /\ Kept(notified_events', notified_events)]_vars
    /\ [](\A l \in Loops :
            (res[l].how = "exception" /\ pc[l] \in {"sleep", "start"}) =>
                Kept(res[l].marks, notified_events))
====
